---------------------------- MODULE Spec2Model ----------------------------
(***************************************************************************)
(* Model of attendance-system.py: the five tables of the SQLite store and  *)
(* the eight handlers of the admin, teacher and student portals.           *)
(*                                                                         *)
(* A table is the sequence of its rows in rowid order.  Every handler is   *)
(* one atomic step: SQLite serialises writers and each handler runs one    *)
(* session with one commit.  `open` counts the sessions that were created  *)
(* with SessionLocal() and not yet given back with db.close().  `last`     *)
(* records the handler that ran last, its arguments and what it returned.  *)
(***************************************************************************)
EXTENDS Integers, Sequences, FiniteSets

VARIABLES teachers, subjects, students, attendance, timetables, open, last

vars == <<teachers, subjects, students, attendance, timetables, open, last>>

tables == <<teachers, subjects, students, attendance, timetables>>

(***************************************************************************)
(* Bounds of the model and the input domains of the forms.                 *)
(***************************************************************************)
MaxRows == 2

MaxFlat == 4

MaxOpen == 1

DefaultSessions == 9

Names == {"n1", "n2"}

SubjectNames == {"Math", "Art"}

StudentNames == {"Ann"}

Grades == {"9", "10"}

Sections == {"A"}

ClassNames == {"10A"}

IdInputs == {1, 2}

FlatInputs == UNION {[1..n -> IdInputs] : n \in 0..MaxFlat}

TotalRows ==
    Len(teachers) + Len(subjects) + Len(students) + Len(attendance) + Len(timetables)

(***************************************************************************)
(* Helpers on tables.                                                      *)
(***************************************************************************)
Ids(table) == {table[i].id : i \in 1..Len(table)}

MaxOf(S) == CHOOSE m \in S : \A x \in S : x <= m

\* Integer primary key without AUTOINCREMENT: the new rowid is one more than
\* the largest rowid of the table, 1 for an empty table.
NextIdStale(table) == IF Len(table) = 0 THEN 1 ELSE MaxOf(Ids(table))

NextId(table) == IF Len(table) = 0 THEN 1 ELSE MaxOf(Ids(table)) + 1

\* db.add(row); db.commit(): the row is inserted after the rows of the table.
AddOverwriting(table, row) ==
    IF Len(table) = 0 THEN <<row>> ELSE [table EXCEPT ![Len(table)] = row]

Add(table, row) == Append(table, row)

TeacherDB(table, name) ==
    [id |-> NextId(table), name |-> name, available_sessions |-> DefaultSessions]

SubjectDB(table, name, teacher_id) ==
    [id |-> NextId(table), name |-> name, teacher_id |-> teacher_id]

StudentDB(table, name, grade, section) ==
    [id |-> NextId(table), name |-> name, grade |-> grade, section |-> section]

AttendanceDB(table, student_id, subject_id, date, status) ==
    [id |-> NextId(table), student_id |-> student_id, subject_id |-> subject_id,
     date |-> date, status |-> status]

TimetableDB(table, class_name, period, subject_id, teacher_id) ==
    [id |-> NextId(table), class_name |-> class_name, period |-> period,
     subject_id |-> subject_id, teacher_id |-> teacher_id]

Init ==
    /\ teachers = <<>>
    /\ subjects = <<>>
    /\ students = <<>>
    /\ attendance = <<>>
    /\ timetables = <<>>
    /\ open = 0
    /\ last = [op |-> "init"]

(***************************************************************************)
(* Admin portal.                                                           *)
(***************************************************************************)
\* get_teachers: a session of its own, opened and closed, that reads the table.
get_teachers(table) == [i \in 1..Len(table) |-> <<table[i].id, table[i].name>>]

create_teacher(name) ==
    /\ TotalRows < MaxRows
    /\ teachers' = Add(teachers, TeacherDB(teachers, name))
    /\ open' = (open + 1) - 1
    /\ last' = [op |-> "create_teacher", name |-> name,
                ret |-> teachers'[Len(teachers')].id,
                choices |-> get_teachers(teachers')]
    /\ UNCHANGED <<subjects, students, attendance, timetables>>

create_subject(name, teacher_id) ==
    /\ TotalRows < MaxRows
    /\ subjects' = Add(subjects, SubjectDB(subjects, name, teacher_id))
    /\ open' = (open + 1) - 1
    /\ last' = [op |-> "create_subject", name |-> name, teacher_id |-> teacher_id,
                ret |-> subjects'[Len(subjects')].id]
    /\ UNCHANGED <<teachers, students, attendance, timetables>>

create_student(name, grade, section) ==
    /\ TotalRows < MaxRows
    /\ students' = Add(students, StudentDB(students, name, grade, section))
    /\ open' = (open + 1) - 1
    /\ last' = [op |-> "create_student", name |-> name, grade |-> grade,
                section |-> section, ret |-> students'[Len(students')].id]
    /\ UNCHANGED <<teachers, subjects, attendance, timetables>>

\* Line 112: the flat argument list is cut into (subject, teacher) pairs at the
\* 0-based positions 0, 2, 4, ...; reading position i+1 past the end raises
\* IndexError before any row is added.
PairStarts(flat) == {i \in 0..(Len(flat) - 1) : i % 2 = 0}

PairsTruncating(flat) ==
    [raised |-> FALSE,
     pairs |-> [k \in 1..(Len(flat) \div 2) |-> <<flat[2 * k - 1], flat[2 * k]>>]]

Pairs(flat) ==
    IF \E i \in PairStarts(flat) : i + 1 >= Len(flat)
    THEN [raised |-> TRUE, pairs |-> <<>>]
    ELSE [raised |-> FALSE,
          pairs |-> [k \in 1..Cardinality(PairStarts(flat)) |->
                        <<flat[2 * (k - 1) + 1], flat[2 * (k - 1) + 2]>>]]

\* enumerate(subject_teacher_mapping, start=1)
EnumerateFromZero(pairs) == [k \in 1..Len(pairs) |-> <<k - 1, pairs[k]>>]

Enumerate(pairs) == [k \in 1..Len(pairs) |-> <<k, pairs[k]>>]

\* The loop of lines 113-115 followed by the commit: one row per pair, in order.
RECURSIVE AddPeriods(_, _, _, _)
AddPeriods(table, class_name, numbered, k) ==
    IF k > Len(numbered) THEN table
    ELSE AddPeriods(Add(table, TimetableDB(table, class_name, numbered[k][1],
                                           numbered[k][2][1], numbered[k][2][2])),
                    class_name, numbered, k + 1)

create_timetable(class_name, flat) ==
    LET mapping == Pairs(flat) IN
    IF mapping.raised
    THEN \* IndexError leaves the handler before db.commit() and db.close()
         /\ open < MaxOpen
         /\ open' = open + 1
         /\ last' = [op |-> "create_timetable", class_name |-> class_name,
                     n |-> Len(flat), outcome |-> "IndexError"]
         /\ UNCHANGED tables
    ELSE /\ TotalRows + Len(mapping.pairs) <= MaxRows
         /\ timetables' = AddPeriods(timetables, class_name, Enumerate(mapping.pairs), 1)
         /\ open' = (open + 1) - 1
         /\ last' = [op |-> "create_timetable", class_name |-> class_name,
                     n |-> Len(flat), flat |-> flat, outcome |-> "created"]
         /\ UNCHANGED <<teachers, subjects, students, attendance>>

(***************************************************************************)
(* Teacher portal.                                                         *)
(***************************************************************************)
\* Column(DateTime, default=datetime.datetime.utcnow): the date of a new row is
\* the time of its insert.  Time is a logical clock that ticks at every insert,
\* so the dates of the rows are ordered as their inserts are.
utcnow == TotalRows + 1

take_attendance_row(table, student_id, subject_id, status, date) ==
    AttendanceDB(table, student_id, subject_id, date, status)

take_attendance(student_id, subject_id, status, date) ==
    /\ TotalRows < MaxRows
    /\ attendance' = Add(attendance,
                         take_attendance_row(attendance, student_id, subject_id, status, date))
    /\ open' = (open + 1) - 1
    /\ last' = [op |-> "take_attendance", student_id |-> student_id,
                subject_id |-> subject_id, status |-> status, date |-> date,
                ret |-> attendance'[Len(attendance')].id]
    /\ UNCHANGED <<teachers, subjects, students, timetables>>

\* One line of the report per record: student id, date, status.
ReportLine(record) == <<record.student_id, record.date, record.status>>

\* db.query(AttendanceDB).filter(AttendanceDB.subject_id == subject_id).all()
FilterBySubjectUnfiltered(table, subject_id) == table

RECURSIVE FilterBySubject(_, _)
FilterBySubject(table, subject_id) ==
    IF Len(table) = 0 THEN <<>>
    ELSE LET rest == FilterBySubject(SubSeq(table, 1, Len(table) - 1), subject_id)
             r == table[Len(table)]
         IN IF r.subject_id = subject_id THEN Append(rest, r) ELSE rest

Report(table, subject_id) ==
    LET records == FilterBySubject(table, subject_id)
    IN [k \in 1..Len(records) |-> ReportLine(records[k])]

generate_report(subject_id) ==
    /\ open' = (open + 1) - 1
    /\ last' = [op |-> "generate_report", subject_id |-> subject_id,
                report |-> Report(attendance, subject_id)]
    /\ UNCHANGED tables

(***************************************************************************)
(* Student portal.                                                         *)
(***************************************************************************)
\* db.query(StudentDB).filter(StudentDB.id == student_id).first()
FindStudentAlways(table, student_id) == {1}

FindStudent(table, student_id) == {i \in 1..Len(table) : table[i].id = student_id}

\* db.query(SubjectDB).join(TeacherDB).filter(SubjectDB.teacher_id == TeacherDB.id)
\* is an inner join: a subject is kept when some teacher row has its teacher_id.
RECURSIVE JoinTeachers(_, _)
JoinTeachers(subjectRows, teacherRows) ==
    IF Len(subjectRows) = 0 THEN <<>>
    ELSE LET rest == JoinTeachers(SubSeq(subjectRows, 1, Len(subjectRows) - 1), teacherRows)
             s == subjectRows[Len(subjectRows)]
         IN IF \E t \in 1..Len(teacherRows) : teacherRows[t].id = s.teacher_id
            THEN Append(rest, s) ELSE rest

ScheduleLine(subject) == <<subject.name, subject.teacher_id>>

check_schedule(student_id) ==
    IF FindStudent(students, student_id) = {}
    THEN \* line 190 returns without db.close()
         /\ open < MaxOpen
         /\ open' = open + 1
         /\ last' = [op |-> "check_schedule", student_id |-> student_id,
                     outcome |-> "Student not found"]
         /\ UNCHANGED tables
    ELSE /\ open' = (open + 1) - 1
         /\ last' = [op |-> "check_schedule", student_id |-> student_id,
                     outcome |-> "schedule",
                     schedule |-> LET found == JoinTeachers(subjects, teachers)
                                  IN [k \in 1..Len(found) |-> ScheduleLine(found[k])]]
         /\ UNCHANGED tables

log_attendance_row_default(table, student_id, subject_id, date) ==
    AttendanceDB(table, student_id, subject_id, date, FALSE)

log_attendance_row(table, student_id, subject_id, date) ==
    AttendanceDB(table, student_id, subject_id, date, TRUE)

log_attendance(student_id, subject_id, date) ==
    /\ TotalRows < MaxRows
    /\ attendance' = Add(attendance,
                         log_attendance_row(attendance, student_id, subject_id, date))
    /\ open' = (open + 1) - 1
    /\ last' = [op |-> "log_attendance", student_id |-> student_id,
                subject_id |-> subject_id, date |-> date,
                ret |-> attendance'[Len(attendance')].id]
    /\ UNCHANGED <<teachers, subjects, students, timetables>>

Next ==
    \/ \E name \in Names : create_teacher(name)
    \/ \E name \in SubjectNames, teacher_id \in IdInputs : create_subject(name, teacher_id)
    \/ \E name \in StudentNames, grade \in Grades, section \in Sections :
          create_student(name, grade, section)
    \/ \E class_name \in ClassNames, flat \in FlatInputs : create_timetable(class_name, flat)
    \/ \E student_id \in IdInputs, subject_id \in IdInputs, status \in BOOLEAN :
          take_attendance(student_id, subject_id, status, utcnow)
    \/ \E subject_id \in IdInputs : generate_report(subject_id)
    \/ \E student_id \in IdInputs : check_schedule(student_id)
    \/ \E student_id \in IdInputs, subject_id \in IdInputs :
          log_attendance(student_id, subject_id, utcnow)

Spec == Init /\ [][Next]_vars

(***************************************************************************)
(* Properties.                                                             *)
(***************************************************************************)
IsPrefix(old, new) == Len(old) <= Len(new) /\ SubSeq(new, 1, Len(old)) = old

Added(old, new) == SubSeq(new, Len(old) + 1, Len(new))

UniqueIds(table) ==
    \A i, j \in 1..Len(table) : i # j => table[i].id # table[j].id

FreshIds(old, new) ==
    \A k \in 1..Len(new) : k > Len(old) => new[k].id \notin Ids(old)

\* C1: in each of the teachers, subjects, students and timetables tables no two
\* rows share an id, every row a step adds has an id that no row of the table
\* held before the step, and create_teacher, create_subject and create_student
\* each add one row, also for arguments equal to those of an existing row, and
\* return the id of that row.
C1_UniqueFreshIds ==
    [][ /\ UniqueIds(teachers') /\ FreshIds(teachers, teachers')
        /\ UniqueIds(subjects') /\ FreshIds(subjects, subjects')
        /\ UniqueIds(students') /\ FreshIds(students, students')
        /\ UniqueIds(timetables') /\ FreshIds(timetables, timetables')
        /\ last'.op = "create_teacher" =>
              /\ Len(teachers') = Len(teachers) + 1
              /\ last'.ret = teachers'[Len(teachers')].id
              /\ last'.ret \notin Ids(teachers)
        /\ last'.op = "create_subject" =>
              /\ Len(subjects') = Len(subjects) + 1
              /\ last'.ret = subjects'[Len(subjects')].id
              /\ last'.ret \notin Ids(subjects)
        /\ last'.op = "create_student" =>
              /\ Len(students') = Len(students) + 1
              /\ last'.ret = students'[Len(students')].id
              /\ last'.ret \notin Ids(students)
      ]_vars

C1_Witness ==
    /\ last.op = "create_teacher"
    /\ Len(teachers) = 2
    /\ teachers[1].name = teachers[2].name
    /\ teachers[1].id # teachers[2].id

\* C2: create_timetable with a class name c and an even-length flat input
\* s1,t1,...,sn,tn succeeds and appends exactly n rows to timetables; for each
\* k in 1..n exactly one appended row has class_name c, period k, subject_id sk
\* and teacher_id tk; the rows that were there and the other tables stay as
\* they were.
C2_TimetableRows ==
    [][ (last'.op = "create_timetable" /\ last'.n % 2 = 0) =>
          /\ last'.outcome = "created"
          /\ LET flat == last'.flat
                 n == Len(flat) \div 2
                 added == Added(timetables, timetables')
             IN /\ IsPrefix(timetables, timetables')
                /\ Len(added) = n
                /\ \A k \in 1..n :
                      Cardinality({i \in 1..Len(added) :
                                      /\ added[i].class_name = last'.class_name
                                      /\ added[i].period = k
                                      /\ added[i].subject_id = flat[2 * k - 1]
                                      /\ added[i].teacher_id = flat[2 * k]}) = 1
          /\ UNCHANGED <<teachers, subjects, students, attendance>>
      ]_vars

C2_Witness ==
    /\ last.op = "create_timetable"
    /\ last.outcome = "created"
    /\ last.n = 4
    /\ Len(timetables) = 2
    /\ timetables[1].period = 1
    /\ timetables[2].period = 2

\* The k-th line of r is the (student_id, date, status) of the k-th row, in
\* insertion order, among the rows of the attendance table whose subject_id
\* is subj, and r has no other line.
IsReportOf(r, subj) ==
    LET idx == {i \in 1..Len(attendance) : attendance[i].subject_id = subj}
        nth(k) == CHOOSE i \in idx : Cardinality({j \in idx : j <= i}) = k
    IN /\ Len(r) = Cardinality(idx)
       /\ \A k \in 1..Len(r) :
             r[k] = <<attendance[nth(k)].student_id, attendance[nth(k)].date,
                      attendance[nth(k)].status>>

\* C3: in every state the report of a subject has one line (student_id, date,
\* status) per attendance row of that subject and none for a row of another
\* subject, in insertion order, duplicates kept; the report generate_report
\* returned is that report; and every recorded row (s, subj, st) shows in the
\* report of subj as a line for s with status st.
C3_ReportIsSubjectRows ==
    /\ \A subj \in IdInputs : IsReportOf(Report(attendance, subj), subj)
    /\ last.op = "generate_report" => IsReportOf(last.report, last.subject_id)
    /\ \A i \in 1..Len(attendance) :
          LET r == Report(attendance, attendance[i].subject_id)
          IN \E k \in 1..Len(r) : /\ r[k][1] = attendance[i].student_id
                                  /\ r[k][3] = attendance[i].status

C3_Witness ==
    /\ last.op = "generate_report"
    /\ Len(attendance) = 2
    /\ attendance[1].subject_id # attendance[2].subject_id
    /\ Len(last.report) = 1

\* C4: check_schedule answers "Student not found" exactly when its argument is
\* the id of no row of students, and then it leaves every table unchanged.
C4_NotFoundIffNoStudent ==
    [][ last'.op = "check_schedule" =>
          /\ (last'.student_id \notin Ids(students)) <=>
                (last'.outcome = "Student not found")
          /\ last'.outcome = "Student not found" => UNCHANGED tables
      ]_vars

C4_Witness ==
    /\ last.op = "check_schedule"
    /\ last.outcome = "Student not found"
    /\ Len(students) > 0

\* C5: a schedule returned by check_schedule has exactly one (name, teacher_id)
\* line for each row of subjects, whatever the teacher_id of the row.
C5_ScheduleHasAllSubjects ==
    (last.op = "check_schedule" /\ last.outcome = "schedule") =>
        /\ Len(last.schedule) = Len(subjects)
        /\ \A i \in 1..Len(subjects) :
              Cardinality({k \in 1..Len(last.schedule) :
                              last.schedule[k] = ScheduleLine(subjects[i])})
                = Cardinality({j \in 1..Len(subjects) :
                                  ScheduleLine(subjects[j]) = ScheduleLine(subjects[i])})

\* C6: log_attendance(s, subj) appends one attendance row, with status TRUE,
\* and leaves the store as take_attendance(s, subj, TRUE) would at that time.
C6_LogIsTakePresent ==
    [][ last'.op = "log_attendance" =>
          /\ attendance' = Append(attendance,
                                  take_attendance_row(attendance, last'.student_id,
                                                      last'.subject_id, TRUE, last'.date))
          /\ Len(attendance') = Len(attendance) + 1
          /\ attendance'[Len(attendance')].status = TRUE
          /\ UNCHANGED <<teachers, subjects, students, timetables>>
      ]_vars

C6_Witness ==
    /\ last.op = "log_attendance"
    /\ Len(attendance) = 2
    /\ attendance[1].status = FALSE
    /\ attendance[2].status = TRUE

\* C7: the teacher_id of every row of subjects is the id of a row of teachers.
C7_SubjectTeacherExists ==
    \A i \in 1..Len(subjects) : subjects[i].teacher_id \in Ids(teachers)

\* C8: no step updates or deletes a row: every table of the next state starts
\* with the rows of the table as they are now.
C8_TablesOnlyGrow ==
    [][ /\ IsPrefix(teachers, teachers')
        /\ IsPrefix(subjects, subjects')
        /\ IsPrefix(students, students')
        /\ IsPrefix(attendance, attendance')
        /\ IsPrefix(timetables, timetables')
      ]_vars

C8_Witness ==
    /\ Len(attendance) = 1
    /\ Len(timetables) = 1
    /\ last.op = "generate_report"

\* C9: after every completed handler, no session it opened is still open.
C9_NoOpenConnection == open = 0

\* C10: create_timetable with an odd-length flat input fails and changes no
\* table; every call adds either no timetable row or one row per pair.
C10_TimetableAllOrNothing ==
    [][ last'.op = "create_timetable" =>
          /\ last'.n % 2 = 1 => (last'.outcome = "IndexError" /\ UNCHANGED tables)
          /\ \/ timetables' = timetables
             \/ /\ last'.n % 2 = 0
                /\ Len(timetables') = Len(timetables) + last'.n \div 2
      ]_vars

C10_Witness ==
    /\ last.op = "create_timetable"
    /\ last.outcome = "IndexError"
    /\ last.n = 3
    /\ Len(timetables) = 1

=============================================================================
